---- MODULE Spec2Model ----
(***************************************************************************)
(* Model of src/minesweeper.py: the Minesweeper board, the Sentence        *)
(* constraint and the MinesweeperAI inference engine.                      *)
(*                                                                         *)
(* A cell is a pair <<row, col>>.  A Sentence is a record                  *)
(* [cells |-> set of cells, count |-> integer].  Python's None is the      *)
(* empty tuple; a returned set is wrapped in a one-element tuple so that   *)
(* "is not None" is a test on the length.                                  *)
(***************************************************************************)
EXTENDS Integers, Sequences, FiniteSets, TLC

\* Bounds of the exploration.
MaxHeight == 2
MaxWidth == 3
MaxMines == 1
MaxCalls == 2
MaxCtorMines == 3
MaxKBCells == 2
MaxKBCount == 1
MaxSentences == 2

\* make_random_move scans range(8) x range(8) whatever the board's size.
RandomScan == 8

NoneVal == <<>>

IsNone(v) == Len(v) = 0

VARIABLES
    height,        \* MinesweeperAI.height (and Minesweeper.height)
    width,         \* MinesweeperAI.width  (and Minesweeper.width)
    mine_count,    \* the argument mines of Minesweeper.__init__
    game_mines,    \* Minesweeper.mines: the true mine set
    mines_found,   \* Minesweeper.mines_found: the flagged set
    moves_made,    \* MinesweeperAI.moves_made
    mines,         \* MinesweeperAI.mines
    safes,         \* MinesweeperAI.safes
    knowledge,     \* MinesweeperAI.knowledge: sequence of sentences
    pc,            \* "placing" in Minesweeper.__init__; "idle", "update", "subset" in add_knowledge
    calls,         \* number of add_knowledge calls made
    entered,       \* sentences seen at the entries of update_with_new_sentence
    standalone,    \* the running update_with_new_sentence was called on its own
    replaced,      \* the last get_subset_knowledge swapped the knowledge base
    built,         \* the last add_knowledge: its cell, its sentence, the mines known in it
    ret_op,        \* the query that returned last, "none" after a state change
    ret            \* what that query returned

vars == <<height, width, mine_count, game_mines, mines_found, moves_made, mines, safes,
          knowledge, pc, calls, entered, standalone, replaced, built, ret_op, ret>>

ai_vars == <<moves_made, mines, safes, knowledge>>

\* range(n) x range(m)
Grid(h, w) == (0 .. h - 1) \X (0 .. w - 1)

Range(seq) == {seq[i] : i \in 1 .. Len(seq)}

----------------------------------------------------------------------------
\* class Minesweeper

\* nearby_mines looking only at the cells of the same row and the same column.
nearby_mines_orthogonal(cell) ==
    Cardinality({c \in ((cell[1] - 1) .. (cell[1] + 1)) \X ((cell[2] - 1) .. (cell[2] + 1)) :
                    /\ c # cell
                    /\ (c[1] = cell[1] \/ c[2] = cell[2])
                    /\ 0 <= c[1] /\ c[1] < height
                    /\ 0 <= c[2] /\ c[2] < width
                    /\ c \in game_mines})

\* Minesweeper.nearby_mines(cell)
nearby_mines(cell) ==
    Cardinality({c \in ((cell[1] - 1) .. (cell[1] + 1)) \X ((cell[2] - 1) .. (cell[2] + 1)) :
                    /\ c # cell
                    /\ 0 <= c[1] /\ c[1] < height
                    /\ 0 <= c[2] /\ c[2] < width
                    /\ c \in game_mines})

\* won() with "all mines flagged" read as containment.
won_superset == game_mines \subseteq mines_found

\* Minesweeper.won()
won == mines_found = game_mines

----------------------------------------------------------------------------
\* class Sentence

Sentence(cells, count) == [cells |-> cells, count |-> count]

\* known_mines that takes any positive count for "all of them".
known_mines_positive(s) ==
    IF Cardinality(s.cells) # 0 /\ s.count > 0
    THEN <<s.cells>> ELSE NoneVal

known_mines(s) ==
    IF Cardinality(s.cells) # 0 /\ Cardinality(s.cells) = s.count
    THEN <<s.cells>> ELSE NoneVal

\* known_safes with a strict comparison.
known_safes_negative(s) ==
    IF Cardinality(s.cells) # 0 /\ s.count < 0
    THEN <<s.cells>> ELSE NoneVal

\* known_safes without the test for an empty cell set.
known_safes_unguarded(s) ==
    IF s.count <= 0 THEN <<s.cells>> ELSE NoneVal

known_safes(s) ==
    IF Cardinality(s.cells) # 0 /\ s.count <= 0
    THEN <<s.cells>> ELSE NoneVal

\* Sentence.mark_mine without the decrement of the count.
Sentence_mark_mine_keeps_count(s, cell) ==
    IF s.cells # {} /\ cell \in s.cells
    THEN [cells |-> s.cells \ {cell}, count |-> s.count]
    ELSE s

Sentence_mark_mine(s, cell) ==
    IF s.cells # {} /\ cell \in s.cells
    THEN [cells |-> s.cells \ {cell}, count |-> s.count - 1]
    ELSE s

Sentence_mark_safe(s, cell) ==
    IF s.cells # {} /\ cell \in s.cells
    THEN [cells |-> s.cells \ {cell}, count |-> s.count]
    ELSE s

----------------------------------------------------------------------------
\* class MinesweeperAI.  The engine's mutable part is passed around as a
\* record st = [mines, safes, knowledge].

\* mark_mine that tells the sentences but does not record the cell.
mark_mine_unrecorded(st, cell) ==
    [st EXCEPT !.knowledge = [i \in 1 .. Len(@) |-> Sentence_mark_mine(@[i], cell)]]

mark_mine(st, cell) ==
    [st EXCEPT !.mines = @ \cup {cell},
               !.knowledge = [i \in 1 .. Len(@) |-> Sentence_mark_mine(@[i], cell)]]

\* mark_safe that assigns self.safes instead of adding to it.
mark_safe_assigns(st, cell) ==
    [st EXCEPT !.safes = {cell},
               !.knowledge = [i \in 1 .. Len(@) |-> Sentence_mark_safe(@[i], cell)]]

mark_safe(st, cell) ==
    [st EXCEPT !.safes = @ \cup {cell},
               !.knowledge = [i \in 1 .. Len(@) |-> Sentence_mark_safe(@[i], cell)]]

\* for mine in deepcopy(mines): self.mark_mine(mine)
RECURSIVE mark_mine_each(_, _)
mark_mine_each(st, cs) ==
    IF cs = {} THEN st
    ELSE LET c == CHOOSE x \in cs : TRUE
         IN  mark_mine_each(mark_mine(st, c), cs \ {c})

\* for safe in deepcopy(safes): self.mark_safe(safe)
RECURSIVE mark_safe_each(_, _)
mark_safe_each(st, cs) ==
    IF cs = {} THEN st
    ELSE LET c == CHOOSE x \in cs : TRUE
         IN  mark_safe_each(mark_safe(st, c), cs \ {c})

\* get_neighbours: the row and column ranges.  The lower clamp is an
\* "if", the upper clamp its "elif".
row_range(cell) ==
    IF cell[1] = 0 THEN cell[1] .. (cell[1] + 1)
    ELSE IF cell[1] = height - 1 THEN (cell[1] - 1) .. (height - 1)
    ELSE (cell[1] - 1) .. (cell[1] + 1)

col_range(cell) ==
    IF cell[2] = 0 THEN cell[2] .. (cell[2] + 1)
    ELSE IF cell[2] = width - 1 THEN (cell[2] - 1) .. (width - 1)
    ELSE (cell[2] - 1) .. (cell[2] + 1)

\* get_neighbours without the test on self.safes.
get_neighbours_all(known_safe, cell) ==
    row_range(cell) \X col_range(cell)

get_neighbours(known_safe, cell) ==
    {c \in row_range(cell) \X col_range(cell) : c \notin known_safe}

\* One pass of update_with_new_sentence over self.knowledge, from sentence i
\* on.  known_mines() and known_safes() hand out the sentence's own cell set:
\* both are read before any marking, the mines are copied before they are
\* marked, the safes are copied after the mines were marked.
RECURSIVE update_scan(_, _, _)
update_scan(st, i, changed_things) ==
    IF i > Len(st.knowledge) THEN [st |-> st, changed_things |-> changed_things]
    ELSE LET sent == st.knowledge[i]
             m == known_mines(sent)
             s == known_safes(sent)
             st1 == IF ~IsNone(m) THEN mark_mine_each(st, m[1]) ELSE st
             ch1 == IF ~IsNone(m) THEN changed_things + Cardinality(m[1])
                    ELSE changed_things
             safe_copy == st1.knowledge[i].cells
             st2 == IF ~IsNone(s) THEN mark_safe_each(st1, safe_copy) ELSE st1
             ch2 == IF ~IsNone(s) THEN ch1 + Cardinality(safe_copy) ELSE ch1
         IN  update_scan(st2, i + 1, ch2)

\* update_with_new_sentence as a single pass.
update_never_recurses(changed_things) == FALSE

\* if changed_things > 0: self.update_with_new_sentence()
update_recurses(changed_things) == changed_things > 0

\* The derived sentence appended to the list instead of put in place.
replace_sentences_appending(kb, cells, new_sent) ==
    Append(kb, new_sent)

\* [sent if sent.cells != cells else new_sent for sent in self.knowledge]
replace_sentences(kb, cells, new_sent) ==
    [x \in 1 .. Len(kb) |-> IF kb[x].cells # cells THEN kb[x] ELSE new_sent]

\* The inner loop's body with the derived sentence keeping the larger
\* sentence's count.
subset_pair_keeps_count(kb, acc, sent_1, sent_2) ==
    LET cells_1 == sent_1.cells
        cells_2 == sent_2.cells
        count_1 == sent_1.count
        count_2 == sent_2.count
    IN  IF cells_1 # cells_2 /\ Cardinality(cells_1) # 0 /\ Cardinality(cells_2) # 0
        THEN LET a1 == IF cells_1 \subseteq cells_2
                       THEN [new_knowledge |->
                                replace_sentences(kb, cells_2,
                                    Sentence(cells_2 \ cells_1, count_2)),
                             changed_things |-> acc.changed_things + 1]
                       ELSE acc
             IN  IF cells_2 \subseteq cells_1
                 THEN [new_knowledge |->
                          replace_sentences(kb, cells_1,
                              Sentence(cells_1 \ cells_2, count_1)),
                       changed_things |-> a1.changed_things + 1]
                 ELSE a1
        ELSE acc

\* The body of get_subset_knowledge's inner loop for one pair.
subset_pair(kb, acc, sent_1, sent_2) ==
    LET cells_1 == sent_1.cells
        cells_2 == sent_2.cells
        count_1 == sent_1.count
        count_2 == sent_2.count
    IN  IF cells_1 # cells_2 /\ Cardinality(cells_1) # 0 /\ Cardinality(cells_2) # 0
        THEN LET a1 == IF cells_1 \subseteq cells_2
                       THEN [new_knowledge |->
                                replace_sentences(kb, cells_2,
                                    Sentence(cells_2 \ cells_1, count_2 - count_1)),
                             changed_things |-> acc.changed_things + 1]
                       ELSE acc
             IN  IF cells_2 \subseteq cells_1
                 THEN [new_knowledge |->
                          replace_sentences(kb, cells_1,
                              Sentence(cells_1 \ cells_2, count_1 - count_2)),
                       changed_things |-> a1.changed_things + 1]
                 ELSE a1
        ELSE acc

\* The two nested loops of get_subset_knowledge, pair number k of n * n.
RECURSIVE subset_scan(_, _, _)
subset_scan(kb, k, acc) ==
    LET n == Len(kb)
    IN  IF k >= n * n THEN acc
        ELSE subset_scan(kb, k + 1,
                 subset_pair(kb, acc, kb[(k \div n) + 1], kb[(k % n) + 1]))

get_subset_knowledge(kb) ==
    LET r == subset_scan(kb, 0, [new_knowledge |-> <<>>, changed_things |-> 0])
    IN  [knowledge |-> IF r.changed_things > 0 THEN r.new_knowledge ELSE kb,
         changed |-> r.changed_things > 0]

\* make_safe_move without the test on self.moves_made.
make_safe_move_any ==
    IF safes = {} THEN {NoneVal} ELSE safes

\* The candidates of make_safe_move: the first cell of self.safes, in the
\* set's iteration order, that is not in self.moves_made; None when the loop
\* ends without returning.
make_safe_move ==
    LET found == {move \in safes : move \notin moves_made}
    IN  IF found = {} THEN {NoneVal} ELSE found

\* make_random_move's candidates without the test on self.mines.
all_possible_cells_with_mines ==
    {c \in Grid(RandomScan, RandomScan) : c \notin moves_made}

\* The candidates of make_random_move.
all_possible_cells ==
    {c \in Grid(RandomScan, RandomScan) : c \notin moves_made /\ c \notin mines}

make_random_move ==
    IF all_possible_cells # {} THEN all_possible_cells ELSE {NoneVal}

----------------------------------------------------------------------------
\* States and steps

\* No add_knowledge call yet.
NoBuilt == [cell |-> NoneVal, cells |-> {}, count |-> 0, known |-> {}]

\* Minesweeper.__init__ and MinesweeperAI.__init__ for one board.
Init ==
    /\ height \in 1 .. MaxHeight
    /\ width \in 1 .. MaxWidth
    /\ game_mines \in {ms \in SUBSET Grid(height, width) : Cardinality(ms) <= MaxMines}
    /\ mine_count = Cardinality(game_mines)
    /\ mines_found = {}
    /\ moves_made = {}
    /\ mines = {}
    /\ safes = {}
    /\ knowledge = <<>>
    /\ pc = "idle"
    /\ calls = 0
    /\ entered = {}
    /\ standalone = FALSE
    /\ replaced = FALSE
    /\ built = NoBuilt
    /\ ret_op = "none"
    /\ ret = NoneVal

\* add_knowledge(cell, nearby_mines(cell)) up to the call of
\* update_with_new_sentence, for a cell of the board that is not a mine.
AddKnowledgeWithin(cell, limit) ==
    /\ pc = "idle"
    /\ calls < limit
    /\ cell \in Grid(height, width) \ game_mines
    /\ LET count == nearby_mines(cell)
           st == mark_safe([mines |-> mines, safes |-> safes, knowledge |-> knowledge], cell)
           neighbours == get_neighbours(st.safes, cell)
       IN  /\ moves_made' = moves_made \cup {cell}
           /\ safes' = st.safes
           /\ mines' = st.mines
           /\ knowledge' = Append(st.knowledge, Sentence(neighbours, count))
           /\ built' = [cell |-> cell, cells |-> neighbours, count |-> count,
                        known |-> neighbours \cap mines]
    /\ pc' = "update"
    /\ calls' = calls + 1
    /\ entered' = {}
    /\ standalone' = FALSE
    /\ replaced' = FALSE
    /\ ret_op' = "none"
    /\ ret' = NoneVal
    /\ UNCHANGED <<height, width, mine_count, game_mines, mines_found>>

AddKnowledge(cell) == AddKnowledgeWithin(cell, MaxCalls)

\* One invocation of update_with_new_sentence: a pass, then either the
\* recursive call or the return of the whole recursion.
UpdateWithNewSentence ==
    /\ pc = "update"
    /\ LET r == update_scan([mines |-> mines, safes |-> safes, knowledge |-> knowledge], 1, 0)
       IN  /\ mines' = r.st.mines
           /\ safes' = r.st.safes
           /\ knowledge' = r.st.knowledge
           /\ pc' = IF update_recurses(r.changed_things) THEN "update"
                    ELSE IF standalone THEN "idle" ELSE "subset"
    /\ entered' = entered \cup Range(knowledge)
    /\ UNCHANGED <<height, width, mine_count, built, game_mines, mines_found, moves_made, calls,
                   standalone, replaced, ret_op, ret>>

\* get_subset_knowledge, the last statement of add_knowledge.
GetSubsetKnowledge ==
    /\ pc = "subset"
    /\ LET r == get_subset_knowledge(knowledge)
       IN  /\ knowledge' = r.knowledge
           /\ replaced' = r.changed
    /\ pc' = "idle"
    /\ UNCHANGED <<height, width, mine_count, built, game_mines, mines_found, moves_made, mines, safes,
                   calls, entered, standalone, ret_op, ret>>

Next ==
    \/ \E cell \in Grid(MaxHeight, MaxWidth) : AddKnowledge(cell)
    \/ UpdateWithNewSentence
    \/ GetSubsetKnowledge

Spec == Init /\ [][Next]_vars

\* The same engine on boards one row higher, with one mine and one call
\* more: three sentences can meet in one get_subset_knowledge pass, and a
\* call can follow the deduction of a mine next to an open cell.
InitDeep ==
    /\ height \in 1 .. MaxHeight + 1
    /\ width \in 1 .. MaxWidth
    /\ game_mines \in {ms \in SUBSET Grid(height, width) : Cardinality(ms) <= MaxMines + 1}
    /\ mine_count = Cardinality(game_mines)
    /\ mines_found = {}
    /\ moves_made = {}
    /\ mines = {}
    /\ safes = {}
    /\ knowledge = <<>>
    /\ pc = "idle"
    /\ calls = 0
    /\ entered = {}
    /\ standalone = FALSE
    /\ replaced = FALSE
    /\ built = NoBuilt
    /\ ret_op = "none"
    /\ ret = NoneVal

NextDeep ==
    \/ \E cell \in Grid(MaxHeight + 1, MaxWidth) : AddKnowledgeWithin(cell, MaxCalls + 1)
    \/ UpdateWithNewSentence
    \/ GetSubsetKnowledge

SpecDeep == InitDeep /\ [][NextDeep]_vars

\* update_with_new_sentence called again once add_knowledge has returned.
UpdateAgain ==
    /\ pc = "idle"
    /\ calls > 0
    /\ pc' = "update"
    /\ standalone' = TRUE
    /\ entered' = {}
    /\ ret_op' = "none"
    /\ ret' = NoneVal
    /\ UNCHANGED <<height, width, mine_count, built, game_mines, mines_found, moves_made, mines, safes,
                   knowledge, calls, replaced>>

NextAgain == Next \/ UpdateAgain

SpecAgain == Init /\ [][NextAgain]_vars

\* An engine whose knowledge base is filled sentence by sentence, as a
\* caller appending to self.knowledge does, with any cell sets over a row of
\* cells and any counts, negative and too large ones included, and on which
\* update_with_new_sentence is then called.
KBSentences(cells, top) == [cells : SUBSET cells, count : -1 .. top]

InitKB ==
    /\ height = 1
    /\ width = MaxKBCells
    /\ game_mines = {}
    /\ mine_count = 0
    /\ mines_found = {}
    /\ moves_made = {}
    /\ mines = {}
    /\ safes = {}
    /\ knowledge = <<>>
    /\ pc = "idle"
    /\ calls = 0
    /\ entered = {}
    /\ standalone = FALSE
    /\ replaced = FALSE
    /\ built = NoBuilt
    /\ ret_op = "none"
    /\ ret = NoneVal

AppendSentence(s) ==
    /\ pc = "idle"
    /\ Len(knowledge) < MaxSentences
    /\ knowledge' = Append(knowledge, s)
    /\ UNCHANGED <<height, width, mine_count, built, game_mines, mines_found,
                   moves_made, mines, safes, pc, calls, entered, standalone,
                   replaced, ret_op, ret>>

UpdateDirect ==
    /\ pc = "idle"
    /\ pc' = "update"
    /\ standalone' = TRUE
    /\ entered' = {}
    /\ UNCHANGED <<height, width, mine_count, built, game_mines, mines_found,
                   moves_made, mines, safes, knowledge, calls, replaced,
                   ret_op, ret>>

NextKB ==
    \/ \E s \in KBSentences(Grid(1, MaxKBCells), MaxKBCount) : AppendSentence(s)
    \/ UpdateDirect
    \/ UpdateWithNewSentence

SpecKB == InitKB /\ [][NextKB]_vars /\ WF_vars(UpdateWithNewSentence)

\* An engine whose knowledge base holds two sentences over a row of cells,
\* two cells longer and with counts one higher to make room for a
\* difference, about to run
\* get_subset_knowledge.
InitPair ==
    /\ height = 1
    /\ width = MaxKBCells + 2
    /\ game_mines = {}
    /\ mine_count = 0
    /\ mines_found = {}
    /\ moves_made = {}
    /\ mines = {}
    /\ safes = {}
    /\ knowledge \in [1 .. 2 -> KBSentences(Grid(1, MaxKBCells + 2), MaxKBCount + 1)]
    /\ pc = "subset"
    /\ calls = Len(knowledge)
    /\ entered = {}
    /\ standalone = FALSE
    /\ replaced = FALSE
    /\ built = NoBuilt
    /\ ret_op = "none"
    /\ ret = NoneVal

NextPair == GetSubsetKnowledge \/ UpdateAgain \/ UpdateWithNewSentence

SpecPair == InitPair /\ [][NextPair]_vars

\* The two move queries, asked between add_knowledge calls.
MakeSafeMove ==
    /\ pc = "idle"
    /\ ret' \in make_safe_move
    /\ ret_op' = "make_safe_move"
    /\ UNCHANGED <<height, width, mine_count, built, game_mines, mines_found, moves_made, mines, safes,
                   knowledge, pc, calls, entered, standalone, replaced>>

MakeRandomMove ==
    /\ pc = "idle"
    /\ ret' \in make_random_move
    /\ ret_op' = "make_random_move"
    /\ UNCHANGED <<height, width, mine_count, built, game_mines, mines_found, moves_made, mines, safes,
                   knowledge, pc, calls, entered, standalone, replaced>>

NextMoves == Next \/ MakeSafeMove \/ MakeRandomMove

SpecMoves == Init /\ [][NextMoves]_vars

\* Minesweeper.won() on a board with any set of flagged cells.
InitWon ==
    /\ height \in 1 .. MaxHeight
    /\ width \in 1 .. MaxWidth
    /\ game_mines \in {ms \in SUBSET Grid(height, width) : Cardinality(ms) <= MaxMines}
    /\ mine_count = Cardinality(game_mines)
    /\ mines_found \in SUBSET Grid(height, width)
    /\ moves_made = {}
    /\ mines = {}
    /\ safes = {}
    /\ knowledge = <<>>
    /\ pc = "idle"
    /\ calls = 0
    /\ entered = {}
    /\ standalone = FALSE
    /\ replaced = FALSE
    /\ built = NoBuilt
    /\ ret_op = "none"
    /\ ret = NoneVal

Won ==
    /\ ret_op = "none"
    /\ ret' = <<won>>
    /\ ret_op' = "won"
    /\ UNCHANGED <<height, width, mine_count, built, game_mines, mines_found, moves_made, mines, safes,
                   knowledge, pc, calls, entered, standalone, replaced>>

NextWon == Won

SpecWon == InitWon /\ [][NextWon]_vars

\* Minesweeper.__init__(height, width, mines), from the empty board on: the
\* loop that adds the mines, one iteration a step.
InitCtor ==
    /\ height \in 1 .. MaxHeight
    /\ width \in 1 .. MaxWidth
    /\ mine_count \in 0 .. MaxCtorMines
    /\ game_mines = {}
    /\ mines_found = {}
    /\ moves_made = {}
    /\ mines = {}
    /\ safes = {}
    /\ knowledge = <<>>
    /\ pc = "placing"
    /\ calls = 0
    /\ entered = {}
    /\ standalone = FALSE
    /\ replaced = FALSE
    /\ built = NoBuilt
    /\ ret_op = "none"
    /\ ret = NoneVal

\* while len(self.mines) != mines: one iteration with the cell drawn.
PlaceMine(i, j) ==
    /\ pc = "placing"
    /\ Cardinality(game_mines) # mine_count
    /\ i \in 0 .. height - 1
    /\ j \in 0 .. width - 1
    /\ game_mines' = IF <<i, j>> \notin game_mines THEN game_mines \cup {<<i, j>>}
                     ELSE game_mines
    /\ UNCHANGED <<height, width, mine_count, built, mines_found, moves_made, mines, safes,
                   knowledge, pc, calls, entered, standalone, replaced, ret_op, ret>>

\* The loop has ended: self.mines_found = set() and the return.
CtorReturn ==
    /\ pc = "placing"
    /\ Cardinality(game_mines) = mine_count
    /\ mines_found' = {}
    /\ pc' = "idle"
    /\ UNCHANGED <<height, width, mine_count, built, game_mines, moves_made, mines, safes,
                   knowledge, calls, entered, standalone, replaced, ret_op, ret>>

NextCtor ==
    \/ \E i \in 0 .. MaxHeight - 1, j \in 0 .. MaxWidth - 1 : PlaceMine(i, j)
    \/ CtorReturn

SpecCtor == InitCtor /\ [][NextCtor]_vars

----------------------------------------------------------------------------
\* Properties

\* C1: under add_knowledge calls on in-grid non-mine cells with the board's
\* true counts, no cell is ever in both self.safes and self.mines.
C1_SafesMinesDisjoint == safes \cap mines = {}

\* add_knowledge has returned with at least one cell classified each way.
C1_Witness == pc = "idle" /\ calls > 0 /\ safes # {} /\ mines # {}

\* C2: every step of add_knowledge (the marking and the appending, each pass
\* of update_with_new_sentence, get_subset_knowledge) leaves self.safes,
\* self.mines and self.moves_made supersets of what they were.
C2_OnlyGrow ==
    [][/\ safes \subseteq safes'
       /\ mines \subseteq mines'
       /\ moves_made \subseteq moves_made']_vars

\* A second call has run to its end after the first one left cells in all
\* three sets.
C2_Witness ==
    /\ pc = "idle"
    /\ calls = 2
    /\ Cardinality(moves_made) = 2
    /\ Cardinality(safes) > 2
    /\ mines # {}

\* C3: make_safe_move returns a cell of self.safes minus self.moves_made when
\* there is one and None exactly when there is none, and changes none of
\* self.safes, self.mines, self.moves_made, self.knowledge.
C3_SafeMove ==
    [][ret_op' = "make_safe_move" =>
          /\ UNCHANGED ai_vars
          /\ (safes \ moves_made # {}) => (ret' \in safes \ moves_made)
          /\ (ret' = NoneVal) <=> (safes \ moves_made = {})]_vars

\* make_safe_move returned a cell while other safe cells were already moves.
C3_Witness ==
    /\ ret_op = "make_safe_move"
    /\ ret # NoneVal
    /\ safes \cap moves_made # {}

\* C4: on the 1 x 3 board with its mine at (0,2), after add_knowledge((0,0), 0)
\* the cell (0,1) is in self.safes and make_safe_move returns (0,1) whichever
\* candidate it picks; once (0,1) is revealed too, make_safe_move returns None.
C4_Scenario ==
    (height = 1 /\ width = 3 /\ game_mines = {<<0, 2>>} /\ pc = "idle") =>
        /\ (moves_made = {<<0, 0>>}) =>
              /\ <<0, 1>> \in safes
              /\ (ret_op = "make_safe_move") => (ret = <<0, 1>>)
        /\ (moves_made = {<<0, 0>>, <<0, 1>>} /\ ret_op = "make_safe_move") =>
              (ret = NoneVal)

\* C5: make_random_move never returns a cell of self.moves_made or self.mines.
C5_RandomMoveExcludes ==
    (ret_op = "make_random_move" /\ ret # NoneVal) =>
        (ret \notin moves_made /\ ret \notin mines)

\* make_random_move returned a cell while both excluded sets were non-empty.
C5_Witness ==
    /\ ret_op = "make_random_move"
    /\ ret # NoneVal
    /\ moves_made # {}
    /\ mines # {}

\* C6: the candidates of make_random_move are the cells of the height x width
\* grid outside self.moves_made and self.mines: each of them can be returned,
\* nothing else is, and None is returned exactly when there is none.
C6_Expected ==
    LET free == Grid(height, width) \ (moves_made \cup mines)
    IN  IF free = {} THEN {NoneVal} ELSE free

C6_RandomMoveOnGrid ==
    (pc = "idle") =>
        /\ C6_Expected \subseteq make_random_move
        /\ (ret_op = "make_random_move") => (ret \in C6_Expected)

\* C7: a sentence that has a non-empty cell set of exactly count cells when
\* update_with_new_sentence is entered (at any depth of its recursion) has
\* all those cells in self.mines when update_with_new_sentence returns.
C7_DirectMines ==
    (pc = "subset") =>
        \A s \in entered :
            (s.cells # {} /\ Cardinality(s.cells) = s.count) => (s.cells \subseteq mines)

\* update_with_new_sentence has returned after it was entered with such a
\* sentence.
C7_Witness ==
    /\ pc = "subset"
    /\ \E s \in entered : s.cells # {} /\ Cardinality(s.cells) = s.count

\* C8: a sentence that has a non-empty cell set and a count <= 0 when
\* update_with_new_sentence is entered has all its cells in self.safes when
\* update_with_new_sentence returns.
C8_DirectSafes ==
    (pc = "subset") =>
        \A s \in entered :
            (s.cells # {} /\ s.count <= 0) => (s.cells \subseteq safes)

\* update_with_new_sentence has returned after it was entered with such a
\* sentence, next to one that was not resolvable.
C8_Witness ==
    /\ pc = "subset"
    /\ \E s \in entered : s.cells # {} /\ s.count <= 0
    /\ \E s \in entered : s.cells # {} /\ s.count > 0

\* C9, as claimed: update_with_new_sentence run again after add_knowledge has
\* returned, with no add_knowledge in between, adds no cell to self.safes or
\* self.mines.
C9_StableAfterAddKnowledge ==
    [][(standalone /\ pc = "update") => (safes' = safes /\ mines' = mines)]_vars

\* C9, amended: the same, for an add_knowledge call whose get_subset_knowledge
\* replaced no sentence.
C9_StableWithoutReplacement ==
    [][(standalone /\ pc = "update" /\ ~replaced) =>
          (safes' = safes /\ mines' = mines)]_vars

\* The second run has ended on a knowledge base, untouched by the subset
\* pass, that still holds an open sentence.
C9_Witness ==
    /\ pc = "idle"
    /\ standalone
    /\ ~replaced
    /\ entered # {}
    /\ \E i \in 1 .. Len(knowledge) : knowledge[i].cells # {}

\* C10: won() is true exactly when mines_found is the true mine set: false
\* with one true mine missing, false with the mine set plus one other cell.
C10_Won ==
    (ret_op = "won") =>
        /\ ret[1] <=> (mines_found \subseteq game_mines /\ game_mines \subseteq mines_found)
        /\ (\E m \in game_mines : mines_found = game_mines \ {m}) => ~ret[1]
        /\ (\E c \in Grid(height, width) \ game_mines : mines_found = game_mines \cup {c})
              => ~ret[1]

\* won() has answered for all the mines plus one flagged cell that is none.
C10_Witness ==
    /\ ret_op = "won"
    /\ game_mines # {}
    /\ \E c \in Grid(height, width) \ game_mines : mines_found = game_mines \cup {c}
    /\ ret = <<FALSE>>

\* C11: Minesweeper(height, width, mines) with mines > height * width ends in
\* an error; so the constructor is never found in its loop with every cell
\* of the board already a mine.
C11_FailsFast ==
    (mine_count > height * width /\ Cardinality(game_mines) = height * width) =>
        (pc = "error")

\* C12: one get_subset_knowledge pass loses no replacement.  Every sentence
\* of the knowledge base before the pass that has the cells of another,
\* non-empty sentence as a proper subset is, after the pass, replaced at its
\* position by the difference with such a sentence.
C12_Qualifying(kb, j) ==
    {i \in 1 .. Len(kb) :
        /\ kb[i].cells # {}
        /\ kb[i].cells \subseteq kb[j].cells
        /\ kb[i].cells # kb[j].cells}

C12_NoReplacementLost ==
    [][(pc = "subset") =>
          \A j \in 1 .. Len(knowledge) :
              (C12_Qualifying(knowledge, j) # {}) =>
                  \E i \in C12_Qualifying(knowledge, j) :
                      knowledge'[j] = Sentence(knowledge[j].cells \ knowledge[i].cells,
                                               knowledge[j].count - knowledge[i].count)]_vars

\* C15: on every grid, single-row and single-column ones included, the
\* sentence add_knowledge appends has as its cells the in-grid cells at
\* Chebyshev distance 1 from the revealed cell, minus those in self.safes.
C15_Chebyshev1(cell) ==
    {c \in Grid(height, width) :
        /\ c # cell
        /\ c[1] - cell[1] \in -1 .. 1
        /\ c[2] - cell[2] \in -1 .. 1}

C15_NeighbourCells ==
    (pc = "update" /\ ~standalone /\ entered = {}) =>
        (built.cells = C15_Chebyshev1(built.cell) \ safes)

\* C16: when add_knowledge builds a sentence whose count is the number of
\* cells in it that were already in self.mines, every other cell of that
\* sentence is in self.safes when add_knowledge returns.
C16_KnownMinesResolve ==
    (pc = "idle" /\ calls > 0 /\ built.known # {}
        /\ built.count = Cardinality(built.known)) =>
        ((built.cells \ built.known) \subseteq safes)

\* C13: in a knowledge base of two non-empty sentences A and B with A's
\* cells a proper subset of B's, one get_subset_knowledge pass leaves A as it
\* is and puts (B.cells minus A.cells, B.count minus A.count) in B's place;
\* for A = {c1,c2,c3}=1 and B = {c1,c2,c3,c4}=2 that is {c4}=1, and the
\* update_with_new_sentence that follows puts c4 in self.mines.
C13_A == Sentence({<<0, 0>>, <<0, 1>>, <<0, 2>>}, 1)

C13_B == Sentence({<<0, 0>>, <<0, 1>>, <<0, 2>>, <<0, 3>>}, 2)

C13_Derived == Sentence({<<0, 3>>}, 1)

C13_PairReduction ==
    /\ [][(pc = "subset" /\ Len(knowledge) = 2) =>
             \A a, b \in 1 .. 2 :
                 (/\ a # b
                  /\ knowledge[a].cells # {}
                  /\ knowledge[a].cells \subseteq knowledge[b].cells
                  /\ knowledge[a].cells # knowledge[b].cells) =>
                     /\ knowledge'[a] = knowledge[a]
                     /\ knowledge'[b] =
                            Sentence(knowledge[b].cells \ knowledge[a].cells,
                                     knowledge[b].count - knowledge[a].count)]_vars
    /\ [][(pc = "subset" /\ knowledge = <<C13_A, C13_B>>) =>
             (knowledge' = <<C13_A, C13_Derived>>)]_vars
    /\ []((pc = "idle" /\ standalone /\ replaced
              /\ C13_A \in entered /\ C13_Derived \in entered) =>
             (<<0, 3>> \in mines))

\* The pass over A and B and the update after it have run.
C13_Witness ==
    /\ pc = "idle"
    /\ standalone
    /\ replaced
    /\ C13_A \in entered
    /\ C13_Derived \in entered
    /\ knowledge = <<C13_A, Sentence({}, 0)>>
    /\ mines = {<<0, 3>>}

\* C14: update_with_new_sentence terminates on every knowledge base, also
\* with empty sentences, negative counts and counts above the number of
\* cells: a pass that is followed by the recursive call has strictly shrunk
\* the number of (sentence, cell) memberships, an empty sentence yields
\* neither known_mines nor known_safes, and every run comes to its return.
RECURSIVE C14_Memberships(_)
C14_Memberships(kb) ==
    IF kb = <<>> THEN 0
    ELSE Cardinality(Head(kb).cells) + C14_Memberships(Tail(kb))

C14_Terminates ==
    /\ [][(pc = "update" /\ pc' = "update") =>
             (C14_Memberships(knowledge') < C14_Memberships(knowledge))]_vars
    /\ [](\A i \in 1 .. Len(knowledge) :
             (knowledge[i].cells = {}) =>
                 (IsNone(known_mines(knowledge[i])) /\ IsNone(known_safes(knowledge[i]))))
    /\ ((pc = "update") ~> (pc = "idle"))

\* A run of two passes has returned on a knowledge base with an empty
\* sentence, a negative count and a count above the number of cells.
C14_Witness ==
    /\ pc = "idle"
    /\ Cardinality(entered) > 2
    /\ \E i \in 1 .. Len(knowledge) : knowledge[i].cells = {}
    /\ \E s \in entered : s.count < 0
    /\ \E s \in entered : s.count > Cardinality(s.cells)

\* C17: in every state reached by add_knowledge calls, self.knowledge holds
\* as many sentences as add_knowledge calls were made: a call appends one,
\* update_with_new_sentence and get_subset_knowledge keep the length.
C17_OneSentencePerCall == Len(knowledge) = calls

\* Two calls have returned and the second one's subset pass replaced a
\* sentence.
C17_Witness ==
    /\ pc = "idle"
    /\ calls = 2
    /\ replaced
    /\ Len(knowledge) = 2

\* C18: after every add_knowledge call with a truthful count on an in-grid
\* non-mine cell, every sentence of self.knowledge has a count of at least 0
\* and at most the number of its cells.
C18_CountInRange ==
    (pc = "idle") =>
        \A i \in 1 .. Len(knowledge) :
            /\ 0 <= knowledge[i].count
            /\ knowledge[i].count <= Cardinality(knowledge[i].cells)

\* The second call has returned after a mine was marked, which took the
\* mine's cell and one from the count out of a sentence and left it empty.
C18_Witness ==
    /\ pc = "idle"
    /\ calls = 2
    /\ mines # {}
    /\ \E i \in 1 .. Len(knowledge) : knowledge[i] = Sentence({}, 0)

\* C19: with truthful counts on in-grid non-mine cells, every cell of
\* self.mines is a mine of the board, no cell of self.safes is one, and no
\* cell make_safe_move can return is one.
C19_Sound ==
    /\ mines \subseteq game_mines
    /\ safes \cap game_mines = {}
    /\ \A move \in make_safe_move : IsNone(move) \/ move \notin game_mines

\* The board's mine was found, other cells were found safe, and
\* make_safe_move has a cell to return.
C19_Witness ==
    /\ pc = "idle"
    /\ game_mines # {}
    /\ mines = game_mines
    /\ \E move \in make_safe_move : ~IsNone(move)

\* C20: when add_knowledge has returned, no sentence of self.knowledge
\* contains a cell of self.safes.
C20_NoSafeCellInSentence ==
    (pc = "idle") =>
        \A i \in 1 .. Len(knowledge) : knowledge[i].cells \cap safes = {}

\* The second call built its sentence without a known-safe neighbour and a
\* non-empty sentence is left.
C20_Witness ==
    /\ pc = "idle"
    /\ calls = 2
    /\ (C15_Chebyshev1(built.cell) \cap Grid(height, width)) \ built.cells # {}
    /\ \E i \in 1 .. Len(knowledge) : knowledge[i].cells # {}

====
